---- MODULE Spec2Model ----
(***************************************************************************)
(* LoRaWAN multicast group key management of rust-lorawan:                 *)
(*   - the multicast session pool   (lorawan-device/src/mac/multicast.rs)  *)
(*   - the group-setup request decoder                                     *)
(*                        (lorawan-encoding/src/multicast/group_setup.rs)  *)
(*   - the multicast key derivations (lorawan-encoding/src/keys.rs)        *)
(*                                                                         *)
(* Three specifications share the variables:                               *)
(*   Spec        the session pool, driven by its four operations           *)
(*   SpecDecode  the decoder applied to received 29-byte buffers           *)
(*   SpecKeys    the three key derivations applied to keys and addresses   *)
(***************************************************************************)
EXTENDS Integers, Sequences, FiniteSets, TLC

VARIABLES
    mc_root_key,    \* Multicast.mc_root_key
    mc_k_e_key,     \* Multicast.mc_k_e_key
    port,           \* Multicast.port
    sessions,       \* Multicast.sessions : [Option<Session>; 4], indexed 0..3
    payload,        \* McGroupSetupReqPayload.0, the borrowed request buffer
    ret,            \* the last call: [op, arg, out]
    installed,      \* history: the Sessions of the successful add_session calls, in order
    last_set_port   \* history: Some(argument of the last set_port call), or None

vars == <<mc_root_key, mc_k_e_key, port, sessions, payload, ret, installed, last_set_port>>

(***************************************************************************)
(* Bounds of the model.                                                    *)
(***************************************************************************)
NumAddrs == 4       \* multicast addresses offered to the pool, the decoder and the derivations
NumMcKeys == 12     \* parent keys offered to the derivations

(***************************************************************************)
(* Program constants.                                                      *)
(***************************************************************************)
DEFAULT_MC_PORT == 200
NumSlots == 4

\* Option<T>: None is the empty sequence, Some(x) the one-element sequence.
None == <<>>
Some(x) == <<x>>

Byte == 0..255
Zero16 == [j \in 1..16 |-> 0]

\* keys.rs test module
TEST_KEY == <<4, 2, 3, 4, 5, 6, 7, 8, 9, 10, 11, 12, 13, 14, 15, 16>>
ADDR == <<1, 2, 3, 4>>

(***************************************************************************)
(* The crypto provider: Encrypter::encrypt_block is one AES-128 block      *)
(* encryption (FIPS-197) under the key new_enc was given.  A block and a   *)
(* key are tuples of 16 bytes; byte r + 4c of the block is row r, column c *)
(* of the AES state.                                                       *)
(***************************************************************************)
\* the value of the one element of S: binds a value that is used more than once
The(S) == CHOOSE x \in S : TRUE

\* bitwise exclusive or of two bytes, bit by bit
XorBits(x, y) ==
      ((x + y) % 2)
    + 2 * (((x \div 2) + (y \div 2)) % 2)
    + 4 * (((x \div 4) + (y \div 4)) % 2)
    + 8 * (((x \div 8) + (y \div 8)) % 2)
    + 16 * (((x \div 16) + (y \div 16)) % 2)
    + 32 * (((x \div 32) + (y \div 32)) % 2)
    + 64 * (((x \div 64) + (y \div 64)) % 2)
    + 128 * (((x \div 128) + (y \div 128)) % 2)

Xor(a, b) == The({ XorBits(x, y) : x \in {a}, y \in {b} })

\* multiplication by x in GF(2^8) modulo x^8 + x^4 + x^3 + x + 1
xtime(a) == The({ IF x >= 128 THEN XorBits((2 * x) % 256, 27) ELSE 2 * x : x \in {a} })

\* the S-box of FIPS-197 (figure 7), row by row
SBoxTable ==
    <<99, 124, 119, 123, 242, 107, 111, 197,  48,   1, 103,  43, 254, 215, 171, 118,
       202, 130, 201, 125, 250,  89,  71, 240, 173, 212, 162, 175, 156, 164, 114, 192,
       183, 253, 147,  38,  54,  63, 247, 204,  52, 165, 229, 241, 113, 216,  49,  21,
         4, 199,  35, 195,  24, 150,   5, 154,   7,  18, 128, 226, 235,  39, 178, 117,
         9, 131,  44,  26,  27, 110,  90, 160,  82,  59, 214, 179,  41, 227,  47, 132,
        83, 209,   0, 237,  32, 252, 177,  91, 106, 203, 190,  57,  74,  76,  88, 207,
       208, 239, 170, 251,  67,  77,  51, 133,  69, 249,   2, 127,  80,  60, 159, 168,
        81, 163,  64, 143, 146, 157,  56, 245, 188, 182, 218,  33,  16, 255, 243, 210,
       205,  12,  19, 236,  95, 151,  68,  23, 196, 167, 126,  61, 100,  93,  25, 115,
        96, 129,  79, 220,  34,  42, 144, 136,  70, 238, 184,  20, 222,  94,  11, 219,
       224,  50,  58,  10,  73,   6,  36,  92, 194, 211, 172,  98, 145, 149, 228, 121,
       231, 200,  55, 109, 141, 213,  78, 169, 108,  86, 244, 234, 101, 122, 174,   8,
       186, 120,  37,  46,  28, 166, 180, 198, 232, 221, 116,  31,  75, 189, 139, 138,
       112,  62, 181, 102,  72,   3, 246,  14,  97,  53,  87, 185, 134, 193,  29, 158,
       225, 248, 152,  17, 105, 217, 142, 148, 155,  30, 135, 233, 206,  85,  40, 223,
       140, 161, 137,  13, 191, 230,  66, 104,  65, 153,  45,  15, 176,  84, 187,  22 >>

SBox(a) == SBoxTable[a + 1]

\* the 16 bytes of f, evaluated
Block16(f) ==
    << f[1], f[2], f[3], f[4], f[5], f[6], f[7], f[8],
       f[9], f[10], f[11], f[12], f[13], f[14], f[15], f[16] >>

SubBytes(s) == Block16([i \in 1..16 |-> SBox(s[i])])

ShiftRows(s) ==
    Block16([i \in 1..16 |-> s[1 + ((i - 1) % 4) + 4 * ((((i - 1) \div 4) + ((i - 1) % 4)) % 4)]])

\* column c of the result is the column c of s multiplied by {02, 03, 01, 01}
MixColumns(s) ==
    Block16([i \in 1..16 |->
        The({ Xor(Xor(Xor(xtime(a0), Xor(xtime(a1), a1)), a2), a3) :
                a0 \in { s[1 + ((i - 1) % 4) + 4 * ((i - 1) \div 4)] },
                a1 \in { s[1 + ((((i - 1) % 4) + 1) % 4) + 4 * ((i - 1) \div 4)] },
                a2 \in { s[1 + ((((i - 1) % 4) + 2) % 4) + 4 * ((i - 1) \div 4)] },
                a3 \in { s[1 + ((((i - 1) % 4) + 3) % 4) + 4 * ((i - 1) \div 4)] } })])

AddRoundKey(s, k) == Block16([i \in 1..16 |-> Xor(s[i], k[i])])

XorWord(a, b) == << Xor(a[1], b[1]), Xor(a[2], b[2]), Xor(a[3], b[3]), Xor(a[4], b[4]) >>

\* the next round key of the AES-128 key schedule
NextRoundKey(rk, rcon) ==
    The({ The({ The({ The({ w0 \o w1 \o w2 \o w3 :
        w3 \in { XorWord(SubSeq(rk, 13, 16), w2) } }) :
        w2 \in { XorWord(SubSeq(rk, 9, 12), w1) } }) :
        w1 \in { XorWord(SubSeq(rk, 5, 8), w0) } }) :
        w0 \in { XorWord(SubSeq(rk, 1, 4),
                         << Xor(SBox(rk[14]), rcon), SBox(rk[15]), SBox(rk[16]), SBox(rk[13]) >>) } })

\* rounds round..10 on the state s; rk is the key of round round - 1
RECURSIVE AesRounds(_, _, _, _)
AesRounds(s, rk, rcon, round) ==
    The({ The({ The({ The({
        IF round = 10 THEN ns ELSE AesRounds(ns, nk, rc, round + 1) :
        ns \in { AddRoundKey(mc, nk) } }) :
        mc \in { IF round = 10 THEN sr ELSE MixColumns(sr) } }) :
        sr \in { ShiftRows(sb) } }) :
        sb \in { SubBytes(s) }, nk \in { NextRoundKey(rk, rcon) }, rc \in { xtime(rcon) } })

\* crypto.new_enc(key).encrypt_block(block)
Aes128Encrypt(key, block) ==
    The({ The({ The({ AesRounds(s0, k, 1, 1) :
        s0 \in { AddRoundKey(b, k) } }) :
        k \in { Block16(k0) }, b \in { Block16(b0) } }) :
        k0 \in { key }, b0 \in { block } })

(***************************************************************************)
(* Rust slices.  Offsets are the source's 0-based offsets; tuples are      *)
(* 1-based.                                                                *)
(***************************************************************************)
\* &b[lo..hi]
Slice(b, lo, hi) == [i \in 1..(hi - lo) |-> b[lo + i]]

\* dst[lo..hi].copy_from_slice(src)
CopyFromSlice(dst, lo, hi, src) ==
    [i \in 1..Len(dst) |-> IF lo < i /\ i <= hi THEN src[i - lo] ELSE dst[i]]

\* A u32 is the pair <<low 16 bits, high 16 bits>>: 2^32 - 1 is beyond the
\* integers TLC computes with.
u32(n) == << n % 65536, n \div 65536 >>

\* the bytes taken most significant first
from_be_bytes(bytes) ==
    << bytes[4] + 256 * bytes[3], bytes[2] + 256 * bytes[1] >>

\* u32::from_le_bytes
from_le_bytes(bytes) ==
    << bytes[1] + 256 * bytes[2], bytes[3] + 256 * bytes[4] >>

(***************************************************************************)
(* keys.rs: the key derivations.                                           *)
(***************************************************************************)
\* MulticastAddr::as_ref: the 4 bytes of the address, in the order it was built from
MulticastAddr_as_ref(mc_addr) == mc_addr

\* MulticastAddr == MulticastAddr: the same 4 bytes
MulticastAddr_eq(a, b) == \A j \in 1..4 : a[j] = b[j]

\* McKey::derive_mc_app_s_key
derive_mc_app_s_key(self, mc_addr) ==
    LET bytes0 == Zero16
        bytes1 == [bytes0 EXCEPT ![1] = 1]
        bytes2 == CopyFromSlice(bytes1, 1, 5, MulticastAddr_as_ref(mc_addr))
    IN  Aes128Encrypt(self, bytes2)

\* McKey::derive_mc_net_s_key
derive_mc_net_s_key(self, mc_addr) ==
    LET bytes0 == Zero16
        bytes1 == [bytes0 EXCEPT ![1] = 2]
        bytes2 == CopyFromSlice(bytes1, 1, 5, MulticastAddr_as_ref(mc_addr))
    IN  Aes128Encrypt(self, bytes2)

\* McKEKey::derive_from
derive_from(root_key) ==
    LET bytes0 == Zero16
    IN  Aes128Encrypt(root_key, bytes0)

(***************************************************************************)
(* group_setup.rs: Session and the group-setup request decoder.            *)
(***************************************************************************)
\* Session::new
Session_new(multicast_addr, mc_net_s_key, mc_app_s_key, fcnt_down, max_fcnt_down) ==
    [ multicast_addr |-> multicast_addr,
      mc_net_s_key   |-> mc_net_s_key,
      mc_app_s_key   |-> mc_app_s_key,
      fcnt_down      |-> fcnt_down,
      max_fcnt_down  |-> max_fcnt_down ]

MulticastAddr_byte_len == 4
McKey_byte_len == 16
size_of_u32 == 4
PayloadLen == 29

mc_group_id_header(b) == b[1]

mc_addr(b) == Slice(b, 1, 1 + MulticastAddr_byte_len)

mc_key_encrypted(b) ==
    Slice(b, 1 + MulticastAddr_byte_len, 1 + MulticastAddr_byte_len + McKey_byte_len)

mc_key_decrypted(b, key) == Aes128Encrypt(key, mc_key_encrypted(b))

min_mc_fcount(b) ==
    LET OFFSET == 1 + MulticastAddr_byte_len + McKey_byte_len
    IN  from_le_bytes(Slice(b, OFFSET, OFFSET + size_of_u32))

max_mc_fcount(b) ==
    LET OFFSET == 1 + MulticastAddr_byte_len + McKey_byte_len + size_of_u32
    IN  from_le_bytes(Slice(b, OFFSET, OFFSET + size_of_u32))

\* returns (McAppSKey, McNetSKey)
derive_session_keys(b, key) ==
    The({ << derive_mc_app_s_key(mc_key, addr), derive_mc_net_s_key(mc_key, addr) >> :
            mc_key \in { mc_key_decrypted(b, key) }, addr \in { mc_addr(b) } })

\* returns (group id, Session)
derive_session(b, key) ==
    The({ << mc_group_id_header(b),
             [ multicast_addr |-> mc_addr(b),
               mc_net_s_key   |-> keys[2],
               mc_app_s_key   |-> keys[1],
               fcnt_down      |-> min_mc_fcount(b),
               max_fcnt_down  |-> max_mc_fcount(b) ] >> :
            keys \in { derive_session_keys(b, key) } })

(***************************************************************************)
(* multicast.rs: the session pool.  Each method is an operator from the    *)
(* sessions array (and its arguments) to the array after the call and the  *)
(* value returned.                                                         *)
(***************************************************************************)
Slots == 0..(NumSlots - 1)

\* the scan taken from the last slot down
RECURSIVE first_none_rev(_, _)
first_none_rev(s, i) ==
    IF i = NumSlots THEN None
    ELSE IF s[NumSlots - 1 - i] = None THEN Some(NumSlots - 1 - i)
    ELSE first_none_rev(s, i + 1)

\* for i in 0..self.sessions.len(): the first i with sessions[i].is_none()
RECURSIVE first_none(_, _)
first_none(s, i) ==
    IF i = NumSlots THEN None
    ELSE IF s[i] = None THEN Some(i)
    ELSE first_none(s, i + 1)

\* add_session without the return in the loop: every empty slot is filled
add_session_no_return(s, multicast_addr, mc_net_skey, mc_app_skey) ==
    IF \E i \in Slots : s[i] = None
    THEN [ sessions |-> [i \in Slots |->
                            IF s[i] = None
                            THEN Some(Session_new(multicast_addr, mc_net_skey, mc_app_skey,
                                                  u32(0), u32(0)))
                            ELSE s[i]],
           out |-> "Ok" ]
    ELSE [ sessions |-> s, out |-> "NoAvailableSlotForSession" ]

\* add_session that evicts slot 0 when the pool is full
add_session_evict(s, multicast_addr, mc_net_skey, mc_app_skey) ==
    LET slot == first_none(s, 0)
        i == IF slot # None THEN slot[1] ELSE 0
    IN  [ sessions |-> [s EXCEPT ![i] =
                           Some(Session_new(multicast_addr, mc_net_skey, mc_app_skey,
                                            u32(0), u32(0)))],
          out |-> "Ok" ]

\* add_session that replaces the session of a slot already holding the address
add_session_replace(s, multicast_addr, mc_net_skey, mc_app_skey) ==
    LET same == { i \in Slots : s[i] # None /\ s[i][1].multicast_addr = multicast_addr }
        slot == IF same # {} THEN Some(CHOOSE i \in same : \A j \in same : i <= j)
                ELSE first_none(s, 0)
    IN  IF slot # None
        THEN [ sessions |-> [s EXCEPT ![slot[1]] =
                                Some(Session_new(multicast_addr, mc_net_skey, mc_app_skey,
                                                 u32(0), u32(0)))],
               out |-> "Ok" ]
        ELSE [ sessions |-> s, out |-> "NoAvailableSlotForSession" ]

\* Multicast::add_session
add_session(s, multicast_addr, mc_net_skey, mc_app_skey) ==
    LET slot == first_none(s, 0)
    IN  IF slot # None
        THEN [ sessions |-> [s EXCEPT ![slot[1]] =
                                Some(Session_new(multicast_addr, mc_net_skey, mc_app_skey, u32(0), u32(0)))],
               out |-> "Ok" ]
        ELSE [ sessions |-> s, out |-> "NoAvailableSlotForSession" ]

\* the scan taken from the last slot down: the last match
RECURSIVE find_map_last(_, _, _)
find_map_last(s, multicast_addr, i) ==
    IF i = NumSlots THEN None
    ELSE IF /\ s[NumSlots - 1 - i] # None
            /\ MulticastAddr_eq(s[NumSlots - 1 - i][1].multicast_addr, multicast_addr)
         THEN Some(NumSlots - 1 - i)
    ELSE find_map_last(s, multicast_addr, i + 1)

\* the scan comparing the first byte of the addresses only
RECURSIVE find_map_first_byte(_, _, _)
find_map_first_byte(s, multicast_addr, i) ==
    IF i = NumSlots THEN None
    ELSE IF s[i] # None /\ s[i][1].multicast_addr[1] = multicast_addr[1] THEN Some(i)
    ELSE find_map_first_byte(s, multicast_addr, i + 1)

\* iter_mut().find_map: the first occupied slot whose address equals the query
RECURSIVE find_map(_, _, _)
find_map(s, multicast_addr, i) ==
    IF i = NumSlots THEN None
    ELSE IF s[i] # None /\ MulticastAddr_eq(s[i][1].multicast_addr, multicast_addr) THEN Some(i)
    ELSE find_map(s, multicast_addr, i + 1)

\* a lookup that takes the session out of its slot
matching_session_take(s, multicast_addr) ==
    LET found == find_map(s, multicast_addr, 0)
    IN  [ sessions |-> IF found = None THEN s ELSE [s EXCEPT ![found[1]] = None],
          out |-> found ]

\* Multicast::matching_session; the returned &mut Session is the slot it borrows
matching_session(s, multicast_addr) ==
    [ sessions |-> s, out |-> find_map(s, multicast_addr, 0) ]

\* set_port that leaves the port as it is
set_port_ignored(p, new_port) == p

\* Multicast::set_port
set_port(p, new_port) == new_port

\* Multicast::port
get_port(p) == p

(***************************************************************************)
(* Inputs.                                                                 *)
(***************************************************************************)
\* ADDR, and ADDR with one byte changed
AddrOf(i) ==
    IF i = 0 THEN ADDR
    ELSE [j \in 1..4 |-> IF j = ((i - 1) % 4) + 1 THEN (ADDR[j] + 16 * i) % 256 ELSE ADDR[j]]

Addrs == { AddrOf(i) : i \in 0..(NumAddrs - 1) }

NetKeyOf(i) == [j \in 1..16 |-> (16 * i + j) % 256]
AppKeyOf(i) == [j \in 1..16 |-> (255 - 16 * i - j) % 256]

\* the (McNetSKey, McAppSKey) pairs offered to add_session
KeyPairs == { << NetKeyOf(i), AppKeyOf(i) >> : i \in {0, 1} }

McKeyOf(i) ==
    IF i = 0 THEN TEST_KEY
    ELSE [j \in 1..16 |-> (37 * i * j + i) % 256]

\* parent keys offered to the derivations
McKeys == { McKeyOf(i) : i \in 0..(NumMcKeys - 1) }

\* root keys a pool is constructed with
RootKeys == { McKeyOf(0) }

Ports == {0, 200}

GroupIds == {3, 255}

\* the 4 bytes of a frame counter field, least significant byte first
CountWords == { <<0, 0, 0, 0>>, <<1, 0, 0, 0>>, <<120, 86, 52, 18>>, <<255, 255, 255, 255>> }

\* McKey_encrypted fields
EncFields == { NetKeyOf(0) }

\* | McGroupIDHeader | McAddr | McKey_encrypted | minMcFCount | maxMcFCount |
Payloads ==
    { <<g>> \o a \o e \o lo \o hi :
        g \in GroupIds, a \in Addrs, e \in EncFields, lo \in CountWords, hi \in CountWords }

EmptySessions == [i \in Slots |-> None]

Call(op, arg, out) == [op |-> op, arg |-> arg, out |-> out]

(***************************************************************************)
(* Spec: the session pool.                                                 *)
(***************************************************************************)
\* Multicast::new
Init ==
    /\ mc_root_key \in RootKeys
    /\ mc_k_e_key = derive_from(mc_root_key)
    /\ port = DEFAULT_MC_PORT
    /\ sessions = EmptySessions
    /\ payload = <<>>
    /\ ret = Call("new", <<>>, <<>>)
    /\ installed = <<>>
    /\ last_set_port = None

AddSession(multicast_addr, mc_net_skey, mc_app_skey) ==
    LET r == add_session(sessions, multicast_addr, mc_net_skey, mc_app_skey)
    IN  /\ sessions' = r.sessions
        /\ ret' = Call("add_session", <<>>, r.out)
        /\ installed' =
              IF r.out = "Ok"
              THEN Append(installed,
                          Session_new(multicast_addr, mc_net_skey, mc_app_skey, u32(0), u32(0)))
              ELSE installed
        /\ UNCHANGED <<mc_root_key, mc_k_e_key, port, payload, last_set_port>>

MatchingSession(multicast_addr) ==
    LET r == matching_session(sessions, multicast_addr)
    IN  /\ sessions' = r.sessions
        /\ ret' = Call("matching_session", multicast_addr, r.out)
        /\ UNCHANGED <<mc_root_key, mc_k_e_key, port, payload, installed, last_set_port>>

SetPort(p) ==
    /\ port' = set_port(port, p)
    /\ ret' = Call("set_port", p, <<>>)
    /\ last_set_port' = Some(p)
    /\ UNCHANGED <<mc_root_key, mc_k_e_key, sessions, payload, installed>>

Port ==
    /\ ret' = Call("port", <<>>, get_port(port))
    /\ UNCHANGED <<mc_root_key, mc_k_e_key, port, sessions, payload, installed, last_set_port>>

Next ==
    \/ \E a \in Addrs, kp \in KeyPairs : AddSession(a, kp[1], kp[2])
    \/ \E a \in Addrs : MatchingSession(a)
    \/ \E p \in Ports : SetPort(p)
    \/ Port

Spec == Init /\ [][Next]_vars

(***************************************************************************)
(* SpecDecode: the decoder applied to a received request, with the         *)
(* McKEKey of the device.                                                  *)
(***************************************************************************)
InitDecode ==
    /\ mc_root_key \in RootKeys
    /\ mc_k_e_key = derive_from(mc_root_key)
    /\ port = DEFAULT_MC_PORT
    /\ sessions = EmptySessions
    /\ payload \in Payloads
    /\ ret = Call("none", <<>>, <<>>)
    /\ installed = <<>>
    /\ last_set_port = None

Decode(op, out) ==
    /\ ret' = Call(op, <<>>, out)
    /\ UNCHANGED <<mc_root_key, mc_k_e_key, port, sessions, payload, installed, last_set_port>>

McGroupIdHeader == Decode("mc_group_id_header", mc_group_id_header(payload))
McAddr == Decode("mc_addr", mc_addr(payload))
MinMcFcount == Decode("min_mc_fcount", min_mc_fcount(payload))
MaxMcFcount == Decode("max_mc_fcount", max_mc_fcount(payload))
DeriveSessionKeys == Decode("derive_session_keys", derive_session_keys(payload, mc_k_e_key))
DeriveSession == Decode("derive_session", derive_session(payload, mc_k_e_key))

NextDecode ==
    \/ McGroupIdHeader
    \/ McAddr
    \/ MinMcFcount
    \/ MaxMcFcount
    \/ DeriveSessionKeys
    \/ DeriveSession

SpecDecode == InitDecode /\ [][NextDecode]_vars

(***************************************************************************)
(* SpecKeys: the key derivations applied to parent keys and addresses.     *)
(***************************************************************************)
InitKeys ==
    /\ mc_root_key = Zero16
    /\ mc_k_e_key = Zero16
    /\ port = DEFAULT_MC_PORT
    /\ sessions = EmptySessions
    /\ payload = <<>>
    /\ ret = Call("none", <<>>, <<>>)
    /\ installed = <<>>
    /\ last_set_port = None

Derive(op, arg, out) ==
    /\ ret' = Call(op, arg, out)
    /\ UNCHANGED <<mc_root_key, mc_k_e_key, port, sessions, payload, installed, last_set_port>>

DeriveFrom(root_key) ==
    Derive("derive_from", <<root_key>>, derive_from(root_key))

DeriveMcAppSKey(mc_key, addr) ==
    Derive("derive_mc_app_s_key", <<mc_key, addr>>, derive_mc_app_s_key(mc_key, addr))

DeriveMcNetSKey(mc_key, addr) ==
    Derive("derive_mc_net_s_key", <<mc_key, addr>>, derive_mc_net_s_key(mc_key, addr))

NextKeys ==
    \/ \E k \in McKeys : DeriveFrom(k)
    \/ \E k \in McKeys, a \in Addrs : DeriveMcAppSKey(k, a)
    \/ \E k \in McKeys, a \in Addrs : DeriveMcNetSKey(k, a)

SpecKeys == InitKeys /\ [][NextKeys]_vars

(***************************************************************************)
(* Vocabulary of the properties.                                           *)
(***************************************************************************)
EmptySlots(s) == { i \in Slots : s[i] = None }
OccupiedSlots(s) == { i \in Slots : s[i] # None }
Full(s) == EmptySlots(s) = {}
LowestOf(S) == CHOOSE i \in S : \A j \in S : i <= j
HighestOf(S) == CHOOSE i \in S : \A j \in S : j <= i
NoSlot == "NoAvailableSlotForSession"

\* the installs, in order, whose multicast address is a
InstalledWith(a) == { k \in 1..Len(installed) : installed[k].multicast_addr = a }

\* bit k of the natural number n
Bit(n, k) == (n \div (2 ^ k)) % 2

\* v is the little-endian 32-bit value of the 4 bytes of b at 0-based offset off
IsLittleEndianAt(v, b, off) ==
    \A k \in 0..31 :
        Bit(b[off + 1 + (k \div 8)], k % 8)
            = (IF k < 16 THEN Bit(v[1], k) ELSE Bit(v[2], k - 16))

Zeros(n) == [j \in 1..n |-> 0]

(***************************************************************************)
(* C1: whenever the pool has an empty slot, add_session(addr, net_key,     *)
(* app_key) returns Ok and puts a Session with that address and those      *)
(* keys and with fcnt_down = 0 and max_fcnt_down = 0 in the lowest-indexed *)
(* empty slot; every other slot and the port stay as they were.            *)
(***************************************************************************)
C1_AddSessionFirstEmptySlot ==
    [][ \A a \in Addrs, kp \in KeyPairs :
          (ret'.op = "add_session" /\ ~Full(sessions) /\ AddSession(a, kp[1], kp[2])) =>
             /\ ret'.out = "Ok"
             /\ sessions' =
                  [sessions EXCEPT ![LowestOf(EmptySlots(sessions))] =
                      << [ multicast_addr |-> a,
                           mc_net_s_key   |-> kp[1],
                           mc_app_s_key   |-> kp[2],
                           fcnt_down      |-> <<0, 0>>,
                           max_fcnt_down  |-> <<0, 0>> ] >>]
             /\ port' = port ]_vars

\* the third add_session has just filled slot 2, below the empty slot 3
C1_Witness ==
    /\ ret.op = "add_session"
    /\ ret.out = "Ok"
    /\ Len(installed) = 3
    /\ sessions[2] # None
    /\ sessions[3] = None

(***************************************************************************)
(* C2: add_session returns NoAvailableSlotForSession exactly when all 4    *)
(* slots are occupied, and then changes no slot and not the port; so it is *)
(* returned only after 4 successful calls, and by the call after them.     *)
(***************************************************************************)
C2_NoSlotExactlyWhenFull ==
    /\ [](ret.op = "add_session" /\ ret.out = NoSlot => Len(installed) = NumSlots)
    /\ [][ ret'.op = "add_session" =>
             /\ (ret'.out = NoSlot) <=> Full(sessions)
             /\ Full(sessions) => (sessions' = sessions /\ port' = port) ]_vars

\* the 5th call, after 4 successful calls with distinct addresses
C2_Witness ==
    /\ ret.op = "add_session"
    /\ ret.out = NoSlot
    /\ Len(installed) = 4
    /\ \A i, j \in Slots :
          i # j => sessions[i][1].multicast_addr # sessions[j][1].multicast_addr

(***************************************************************************)
(* C3 as stated: matching_session(a) returns the session most recently     *)
(* installed with multicast address a, or none if no occupied slot has a.  *)
(***************************************************************************)
C3_MostRecentlyInstalled ==
    ret.op = "matching_session" =>
        IF InstalledWith(ret.arg) = {}
        THEN ret.out = None
        ELSE /\ ret.out # None
             /\ sessions[ret.out[1]][1] = installed[HighestOf(InstalledWith(ret.arg))]

(***************************************************************************)
(* C3 amended: matching_session(a) returns the session installed EARLIEST  *)
(* with multicast address a (the one in the lowest such slot), or none if  *)
(* no occupied slot has address a.                                         *)
(***************************************************************************)
C3_EarliestInstalled ==
    ret.op = "matching_session" =>
        IF InstalledWith(ret.arg) = {}
        THEN ret.out = None
        ELSE /\ ret.out = << LowestOf(InstalledWith(ret.arg)) - 1 >>
             /\ sessions[ret.out[1]][1] = installed[LowestOf(InstalledWith(ret.arg))]

\* two sessions with the queried address and different keys are installed
C3_Witness ==
    /\ ret.op = "matching_session"
    /\ ret.out # None
    /\ \E k1, k2 \in InstalledWith(ret.arg) :
          k1 < k2 /\ installed[k1].mc_net_s_key # installed[k2].mc_net_s_key

(***************************************************************************)
(* C4: matching_session(a) returns the session in the lowest-indexed       *)
(* occupied slot whose stored address equals a byte for byte; empty slots  *)
(* are skipped; the result is none exactly when no occupied slot stores a. *)
(***************************************************************************)
C4_LowestMatchingSlot ==
    ret.op = "matching_session" =>
        LET M == { i \in OccupiedSlots(sessions) :
                     \A j \in 1..4 : sessions[i][1].multicast_addr[j] = ret.arg[j] }
        IN  /\ (ret.out = None) <=> (M = {})
            /\ M # {} => ret.out = << LowestOf(M) >>

\* the match is in slot 1, after a slot with another address and before an empty slot
C4_Witness ==
    /\ ret.op = "matching_session"
    /\ ret.out = <<1>>
    /\ sessions[0] # None
    /\ sessions[3] = None

(***************************************************************************)
(* C5: matching_session never changes the pool: each slot is empty after   *)
(* the call iff it was empty before, the address, keys and counters of     *)
(* each occupied slot are the same, and so is the port, match or no match. *)
(***************************************************************************)
C5_LookupChangesNothing ==
    [][ ret'.op = "matching_session" =>
          /\ \A i \in Slots :
                /\ (sessions'[i] = None) <=> (sessions[i] = None)
                /\ sessions[i] # None =>
                      /\ sessions'[i][1].multicast_addr = sessions[i][1].multicast_addr
                      /\ sessions'[i][1].mc_net_s_key = sessions[i][1].mc_net_s_key
                      /\ sessions'[i][1].mc_app_s_key = sessions[i][1].mc_app_s_key
                      /\ sessions'[i][1].fcnt_down = sessions[i][1].fcnt_down
                      /\ sessions'[i][1].max_fcnt_down = sessions[i][1].max_fcnt_down
          /\ port' = port ]_vars

\* a lookup that found its session, in a pool with an empty slot
C5_Witness ==
    /\ ret.op = "matching_session"
    /\ ret.out # None
    /\ OccupiedSlots(sessions) # {}
    /\ EmptySlots(sessions) # {}

(***************************************************************************)
(* C6: for a 29-byte request b, mc_group_id_header() = b[0], mc_addr() =   *)
(* b[1..5), min_mc_fcount() and max_mc_fcount() are the little-endian      *)
(* 32-bit values of b[21..25) and b[25..29), and derive_session returns    *)
(* b[0] with a Session of address b[1..5), fcnt_down = min and             *)
(* max_fcnt_down = max, for all counter values; b is not modified.         *)
(***************************************************************************)
C6_DecodeFields ==
    /\ [](/\ Len(payload) = PayloadLen
          /\ ret.op = "mc_group_id_header" => ret.out = payload[1]
          /\ ret.op = "mc_addr" =>
                ret.out = << payload[2], payload[3], payload[4], payload[5] >>
          /\ ret.op = "min_mc_fcount" => IsLittleEndianAt(ret.out, payload, 21)
          /\ ret.op = "max_mc_fcount" => IsLittleEndianAt(ret.out, payload, 25)
          /\ ret.op = "derive_session" =>
                /\ ret.out[1] = payload[1]
                /\ ret.out[2].multicast_addr
                      = << payload[2], payload[3], payload[4], payload[5] >>
                /\ IsLittleEndianAt(ret.out[2].fcnt_down, payload, 21)
                /\ IsLittleEndianAt(ret.out[2].max_fcnt_down, payload, 25))
    /\ [][payload' = payload]_vars

\* derive_session on a request with minMcFCount = 0xFFFFFFFF > maxMcFCount = 1
C6_Witness ==
    /\ ret.op = "derive_session"
    /\ ret.out[2].fcnt_down = <<65535, 65535>>
    /\ ret.out[2].max_fcnt_down = <<1, 0>>

(***************************************************************************)
(* C7: each derivation is one AES-128 encryption under the parent key of a *)
(* fixed 16-byte block: derive_from(root) = Enc(root, 16 zero bytes),      *)
(* derive_mc_app_s_key(k, addr) = Enc(k, [0x01] ++ addr ++ 11 zero bytes), *)
(* derive_mc_net_s_key(k, addr) = Enc(k, [0x02] ++ addr ++ 11 zero bytes); *)
(* and for the key [4,2,3,..,16] and the address [1,2,3,4] the results are *)
(* the vectors the tests of keys.rs assert.                                *)
(***************************************************************************)
C7_BlockLayout ==
    /\ ret.op = "derive_from" =>
          ret.out = Aes128Encrypt(ret.arg[1], Zeros(16))
    /\ ret.op = "derive_mc_app_s_key" =>
          ret.out = Aes128Encrypt(ret.arg[1], <<1>> \o ret.arg[2] \o Zeros(11))
    /\ ret.op = "derive_mc_net_s_key" =>
          ret.out = Aes128Encrypt(ret.arg[1], <<2>> \o ret.arg[2] \o Zeros(11))

\* test::mc_root_key_to_mc_ke_key
McKEKeyVector ==
    << 144, 131, 190, 191, 112, 66, 87, 136, 49, 96, 219, 252, 222, 51, 173, 113 >>

\* test::mc_key_to_mc_app_s_key
McAppSKeyVector ==
    << 149, 203, 69, 24, 238, 55, 86, 6, 115, 91, 186, 203, 220, 232, 55, 250 >>

\* test::mc_key_to_mc_net_s_key
McNetSKeyVector ==
    << 195, 246, 179, 136, 186, 214, 192, 0, 178, 50, 145, 173, 82, 193, 28, 123 >>

C7_TestVectors ==
    /\ (ret.op = "derive_from" /\ ret.arg[1] = TEST_KEY) => ret.out = McKEKeyVector
    /\ (ret.op = "derive_mc_app_s_key" /\ ret.arg = << TEST_KEY, ADDR >>) =>
          ret.out = McAppSKeyVector
    /\ (ret.op = "derive_mc_net_s_key" /\ ret.arg = << TEST_KEY, ADDR >>) =>
          ret.out = McNetSKeyVector

C7_KeyDerivations == C7_BlockLayout /\ C7_TestVectors

(***************************************************************************)
(* C8: a new pool has 4 empty slots and port 200; set_port(p) makes port() *)
(* return p and changes no slot; add_session and matching_session do not   *)
(* change the port: port() is the argument of the last set_port, or 200.   *)
(***************************************************************************)
C8_PortIndependentOfSessions ==
    /\ [](/\ ret.op = "new" =>
                (port = 200 /\ \A i \in 0..3 : sessions[i] = None)
          /\ port = (IF last_set_port = None THEN 200 ELSE last_set_port[1])
          /\ ret.op = "set_port" => port = ret.arg
          /\ ret.op = "port" => ret.out = port)
    /\ [][ /\ ret'.op = "set_port" => sessions' = sessions
           /\ ret'.op \in {"add_session", "matching_session", "port"} => port' = port ]_vars

\* port() after set_port(0) and a later add_session
C8_Witness ==
    /\ ret.op = "port"
    /\ ret.out = 0
    /\ last_set_port = <<0>>
    /\ sessions[0] # None

(***************************************************************************)
(* C9: a slot that has become occupied stays occupied and keeps its        *)
(* multicast address, McNetSKey and McAppSKey under every later call; once *)
(* all 4 slots are occupied every later add_session fails.                 *)
(***************************************************************************)
C9_SessionStaysInSlot ==
    [][ /\ \A i \in Slots :
              sessions[i] # None =>
                 /\ sessions'[i] # None
                 /\ sessions'[i][1].multicast_addr = sessions[i][1].multicast_addr
                 /\ sessions'[i][1].mc_net_s_key = sessions[i][1].mc_net_s_key
                 /\ sessions'[i][1].mc_app_s_key = sessions[i][1].mc_app_s_key
        /\ (Full(sessions) /\ ret'.op = "add_session") => ret'.out = NoSlot ]_vars

\* a full pool holding one address twice has refused another add_session
C9_Witness ==
    /\ Full(sessions)
    /\ ret.op = "add_session"
    /\ ret.out = NoSlot
    /\ \E i, j \in Slots :
          /\ i < j
          /\ sessions[i][1].multicast_addr = sessions[j][1].multicast_addr
          /\ sessions[i][1].mc_net_s_key # sessions[j][1].mc_net_s_key

(***************************************************************************)
(* C10: the occupied slots are a prefix 0..n-1 of the array, 0 <= n <= 4,  *)
(* n is the number of successful add_session calls so far, and the k-th    *)
(* successful add_session is stored in slot k-1.                           *)
(***************************************************************************)
C10_OccupiedPrefix ==
    /\ Len(installed) \in 0..4
    /\ OccupiedSlots(sessions) = { i \in Slots : i < Len(installed) }
    /\ \A i, j \in Slots : (i < j /\ sessions[j] # None) => sessions[i] # None
    /\ \A k \in 1..Len(installed) : sessions[k - 1] = << installed[k] >>

\* two sessions installed: slots 0 and 1 occupied, slots 2 and 3 empty
C10_Witness ==
    /\ ret.op = "add_session"
    /\ Len(installed) = 2
    /\ sessions[1] # None
    /\ sessions[2] = None

====
